---- MODULE Spec2Model ----
(***************************************************************************)
(* A model of frontacc_conv.py: FrontaccConverter.gl2qif, the conversion   *)
(* of a FrontAccounting GL bank statement (a spreadsheet) into a QIF file, *)
(* with its helper convert_to_decimal.                                     *)
(*                                                                         *)
(* Text is a sequence of one-character strings.  A spreadsheet cell is its *)
(* text (what str(value) gives) or NaN.  A Decimal is a record of sign,    *)
(* coefficient and number of fractional digits, as Python's decimal keeps  *)
(* it, so that Decimal('200.0') and Decimal('200.00') are equal in value   *)
(* and different in print.                                                 *)
(***************************************************************************)
EXTENDS Integers, Sequences, FiniteSets, TLC

\* Bounds of the model: the transaction rows of a statement, the title rows
\* above its header row, the blank rows put above the header row for the
\* second run, and the length of a Person/Item text.
MaxTx == 2
MaxLead == 1
MaxShift == 1
MaxLen == 4

-----------------------------------------------------------------------------
\* Cells and text.

NaN == <<"NaN">>

notna(v) == v # NaN

\* str() of a cell, as astype(str) and an f-string show it.
Fmt(v) == IF v = NaN THEN <<"n", "a", "n">> ELSE v

Digits == {"0", "1", "2", "3", "4", "5", "6", "7", "8", "9"}

DigitVal(c) ==
  CASE c = "0" -> 0 [] c = "1" -> 1 [] c = "2" -> 2 [] c = "3" -> 3
    [] c = "4" -> 4 [] c = "5" -> 5 [] c = "6" -> 6 [] c = "7" -> 7
    [] c = "8" -> 8 [] c = "9" -> 9

DigitChar(n) ==
  CASE n = 0 -> "0" [] n = 1 -> "1" [] n = 2 -> "2" [] n = 3 -> "3"
    [] n = 4 -> "4" [] n = 5 -> "5" [] n = 6 -> "6" [] n = 7 -> "7"
    [] n = 8 -> "8" [] n = 9 -> "9"

RECURSIVE SeqToNat(_)
SeqToNat(ds) ==
  IF ds = <<>> THEN 0
  ELSE 10 * SeqToNat(SubSeq(ds, 1, Len(ds) - 1)) + DigitVal(ds[Len(ds)])

RECURSIVE NatToSeq(_)
NatToSeq(n) ==
  IF n < 10 THEN <<DigitChar(n)>>
  ELSE NatToSeq(n \div 10) \o <<DigitChar(n % 10)>>

RECURSIVE Pow10(_)
Pow10(k) == IF k <= 0 THEN 1 ELSE 10 * Pow10(k - 1)

RECURSIVE PadLeft(_, _)
PadLeft(s, w) == IF Len(s) >= w THEN s ELSE PadLeft(<<"0">> \o s, w)

RECURSIVE LStrip(_)
LStrip(s) == IF s # <<>> /\ s[1] = " " THEN LStrip(Tail(s)) ELSE s

RECURSIVE RStrip(_)
RStrip(s) ==
  IF s # <<>> /\ s[Len(s)] = " " THEN RStrip(SubSeq(s, 1, Len(s) - 1)) ELSE s

\* str.strip()
Strip(s) == RStrip(LStrip(s))

UpperChar(c) ==
  CASE c = "t" -> "T" [] c = "y" -> "Y" [] c = "p" -> "P" [] c = "e" -> "E"
    [] c = "n" -> "N" [] c = "a" -> "A" [] OTHER -> c

\* str.upper()
Upper(s) == [i \in 1..Len(s) |-> UpperChar(s[i])]

IsPrefix(s, t) == Len(s) <= Len(t) /\ SubSeq(t, 1, Len(s)) = s

-----------------------------------------------------------------------------
\* Decimal.

DNaN == [neg |-> FALSE, coef |-> 0, e |-> -1]

IsDNaN(d) == d.e = -1

\* The value of a Decimal in thousandths (the model's cells have at most
\* three fractional digits).
ValueOf(d) ==
  LET m == d.coef * Pow10(3 - d.e)
  IN  IF d.neg THEN -m ELSE m

\* Decimal.__neg__: the negation of a zero is the positive zero.
DecNeg(d) ==
  IF d.coef = 0 THEN [d EXCEPT !.neg = FALSE] ELSE [d EXCEPT !.neg = ~d.neg]

Signed(d, e) ==
  LET m == d.coef * Pow10(e - d.e)
  IN  IF d.neg THEN -m ELSE m

\* Decimal.__add__: exact, the result has the longer fraction.
DecAdd(a, b) ==
  LET e == IF a.e >= b.e THEN a.e ELSE b.e
      v == Signed(a, e) + Signed(b, e)
  IN  [neg |-> IF v # 0 THEN v < 0
               ELSE a.coef = 0 /\ b.coef = 0 /\ a.neg /\ b.neg,
       coef |-> IF v < 0 THEN -v ELSE v,
       e |-> e]

\* Decimal.__eq__ compares values: Decimal('1.0') == Decimal('1.00').
DecEq(a, b) ==
  LET e == IF a.e >= b.e THEN a.e ELSE b.e
  IN  Signed(a, e) = Signed(b, e)

\* str(Decimal): the sign, the integer digits, and all e fractional digits.
DecStr(d) ==
  LET p == Pow10(d.e)
      int == NatToSeq(d.coef \div p)
      frac == IF d.e = 0 THEN <<>>
              ELSE <<".">> \o PadLeft(NatToSeq(d.coef % p), d.e)
  IN  (IF d.neg THEN <<"-">> ELSE <<>>) \o int \o frac

-----------------------------------------------------------------------------
\* convert_to_decimal.

StripCommas(s) == SelectSeq(s, LAMBDA c : c # ",")

\* str.replace('.', '.', 1): the first point is replaced by a point.
ReplaceFirstPoint(s) == s

Unsigned(s) == IF s # <<>> /\ s[1] = "-" THEN Tail(s) ELSE s

PointAt(s) ==
  IF \E i \in 1..Len(s) : s[i] = "."
  THEN CHOOSE i \in 1..Len(s) : s[i] = "." /\ \A j \in 1..(i - 1) : s[j] # "."
  ELSE Len(s) + 1

\* float(text) accepts an optional sign, digits, and at most one point, with
\* at least one digit.
FloatOk(s) ==
  LET u == Unsigned(s)
  IN  /\ \A i \in 1..Len(u) : u[i] \in Digits \cup {"."}
      /\ Cardinality({i \in 1..Len(u) : u[i] = "."}) <= 1
      /\ \E i \in 1..Len(u) : u[i] \in Digits

RECURSIVE DropTrailingZeros(_)
DropTrailingZeros(s) ==
  IF s # <<>> /\ s[Len(s)] = "0"
  THEN DropTrailingZeros(SubSeq(s, 1, Len(s) - 1))
  ELSE s

\* Decimal(str(float(text))): repr of a float is the shortest text that
\* reads back as the float, with at least one fractional digit ("200.0").
FloatToDecimal(s) ==
  LET u == Unsigned(s)
      p == PointAt(u)
      int == SubSeq(u, 1, p - 1)
      frac == DropTrailingZeros(SubSeq(u, p + 1, Len(u)))
      shown == IF frac = <<>> THEN <<"0">> ELSE frac
  IN  [neg |-> s # <<>> /\ s[1] = "-",
       coef |-> SeqToNat(int \o shown),
       e |-> Len(shown)]

\* Whether convert_to_decimal(value) returns (it raises ValueError otherwise).
ConvertOk(value) ==
  notna(value) /\ FloatOk(ReplaceFirstPoint(StripCommas(value)))

convert_to_decimal(value) ==
  FloatToDecimal(ReplaceFirstPoint(StripCommas(value)))

-----------------------------------------------------------------------------
\* The payee pattern.

\* The characters the group [^/|\n]+ of the pattern leaves out.
PayeeStops == {"/", "|", "\n"}

\* The places where the look-behind (?<=\] ) holds and the group can start.
MatchStarts(s, stops) ==
  {i \in 3..Len(s) : s[i - 2] = "]" /\ s[i - 1] = " " /\ s[i] \notin stops}

RECURSIVE RunEnd(_, _, _)
RunEnd(s, i, stops) ==
  IF i < Len(s) /\ s[i + 1] \notin stops THEN RunEnd(s, i + 1, stops) ELSE i

NoPayee == <<"None">>

\* re.search(pattern, s): the leftmost match, the group taken greedily;
\* then group(1).strip(), or None without a match.
SearchPayee(s, stops) ==
  LET starts == MatchStarts(s, stops)
  IN  IF starts = {} THEN NoPayee
      ELSE LET i == CHOOSE k \in starts : \A j \in starts : k <= j
           IN  Strip(SubSeq(s, i, RunEnd(s, i, stops)))

ExtractPayee(s) == SearchPayee(s, PayeeStops)

\* The P line of a record: written for a non-empty str Person/Item whose
\* payee is found and not empty.
PayeeLines(personItem) ==
  IF notna(personItem) /\ personItem # <<>>
  THEN LET payee == ExtractPayee(personItem)
       IN  IF payee # NoPayee /\ payee # <<>>
           THEN <<[tag |-> "P", body |-> payee]>>
           ELSE <<>>
  ELSE <<>>

-----------------------------------------------------------------------------
\* The statement: rows of cells.  Columns A Type, B Ref, D Date,
\* G Person/Item, H Memo, I Debit, J Credit, K Balance.

NaT == [na |-> TRUE, m |-> 0, d |-> 0, y |-> 0]

Date(m, d, y) == [na |-> FALSE, m |-> m, d |-> d, y |-> y]

\* strftime('%m/%d/%Y')
StrfDate(t) ==
  PadLeft(NatToSeq(t.m), 2) \o <<"/">> \o PadLeft(NatToSeq(t.d), 2)
    \o <<"/">> \o PadLeft(NatToSeq(t.y), 4)

BlankRow ==
  [A |-> NaN, B |-> NaN, D |-> NaT, G |-> NaN, H |-> NaN,
   I |-> NaN, J |-> NaN, K |-> NaN]

TitleRow == [BlankRow EXCEPT !.A = <<"G", "L">>, !.B = <<"Q", "1">>]

\* The row between the opening balance and the first transaction.
AccountRow == [BlankRow EXCEPT !.A = <<"1", "0", "6", "0">>]

HeaderLabels == {<<" ", "t", "y", "p", "e", " ">>, <<"T", "y", "p">>}

HeaderRow(label) ==
  [BlankRow EXCEPT !.A = label, !.B = <<"R", "e", "f">>,
                   !.I = <<"D", "e", "b", "i", "t">>,
                   !.J = <<"C", "r", "e", "d", "i", "t">>]

OpeningRows ==
  { [BlankRow EXCEPT !.A = <<"O", "p", "e", "n">>, !.I = i, !.J = j] :
      <<i, j>> \in { <<<<"1", ",", "0", "0", "0", ".", "0", "0">>, NaN>>,
                     <<NaN, <<"5", "0", "0", ".", "5">>>>,
                     <<NaN, NaN>> } }

TxDebit ==
  [A |-> <<"B", "P">>, B |-> <<"7">>, D |-> Date(3, 15, 2024),
   G |-> <<"[", "1", "]", " ", "A", "c", "/", "x">>,
   H |-> <<"r", "e", "\n", "n", "t">>,
   I |-> <<"2", "0", "0">>, J |-> NaN,
   K |-> <<"1", ",", "2", "0", "0", ".", "0", "0">>]

\* A credit row whose Type is "type".
TxCredit ==
  [A |-> <<"t", "y", "p", "e">>, B |-> <<"8">>, D |-> Date(12, 1, 2024),
   G |-> <<"A", "|", "B">>, H |-> <<"f", "e", "e">>,
   I |-> NaN, J |-> <<"5", "0", ".", "2", "5">>, K |-> NaN]

\* A row with both a debit and a credit.
TxBoth ==
  [TxCredit EXCEPT !.A = <<"B", "D">>, !.I = <<"5">>,
                   !.J = <<"1", ",", "0", "0", "0", ".", "5", "0">>,
                   !.G = <<"]", " ", "A", "|", "B">>]

TxNoAmount ==
  [TxDebit EXCEPT !.I = NaN, !.J = NaN, !.G = NaN]

TxNoMemo ==
  [TxDebit EXCEPT !.I = NaN, !.J = <<"2", "0", "0", ".", "0", "0">>,
                  !.H = NaN, !.G = <<"]", " ", " ", "/">>]

TxBadAmount == [TxDebit EXCEPT !.I = <<"1", ".", "2", ".", "3">>]

TxRows == {TxDebit, TxCredit, TxBoth, TxNoAmount, TxNoMemo, TxBadAmount}

RECURSIVE SeqsUpTo(_, _)
SeqsUpTo(S, n) ==
  IF n = 0 THEN {<<>>}
  ELSE LET shorter == SeqsUpTo(S, n - 1)
       IN  shorter \cup {Append(q, x) : q \in {r \in shorter : Len(r) = n - 1}, x \in S}

\* A cell holding the amount of t thousandths, printed with two decimals.
AmountText(t) ==
  LET a == IF t < 0 THEN -t ELSE t
  IN  NatToSeq(a \div 1000) \o <<".">> \o PadLeft(NatToSeq((a % 1000) \div 10), 2)

ClosingRow(t) ==
  IF t < 0 THEN [BlankRow EXCEPT !.A = <<"E", "n", "d">>, !.J = AmountText(t)]
  ELSE [BlankRow EXCEPT !.A = <<"E", "n", "d">>, !.I = AmountText(t)]

CellValue(c) == IF ConvertOk(c) THEN ValueOf(convert_to_decimal(c)) ELSE 0

RowAmount(r) == IF notna(r.J) THEN -CellValue(r.J) ELSE CellValue(r.I)

RECURSIVE SumAmounts(_)
SumAmounts(rows) ==
  IF rows = <<>> THEN 0 ELSE RowAmount(rows[1]) + SumAmounts(Tail(rows))

\* What follows the transactions: nothing (a truncated statement), or the
\* blank-date row and the closing-balance row, the closing balance right, off
\* by 0.01 or missing, and then possibly one more dated row.  A statement
\* ends in a row with content: read_excel drops the empty rows at the end of
\* a sheet.
Tails(total) ==
  { <<>>,
    <<BlankRow, ClosingRow(total)>>,
    <<BlankRow, ClosingRow(total + 10)>>,
    <<BlankRow, [BlankRow EXCEPT !.A = <<"E", "n", "d">>]>>,
    <<BlankRow, ClosingRow(total), TxDebit>> }

Statements ==
  UNION { UNION { { [i \in 1..lead |-> TitleRow] \o <<HeaderRow(l), o, AccountRow>> \o txs \o t :
                      t \in Tails(RowAmount(o) + SumAmounts(txs)) } :
                  lead \in {0, MaxLead}, l \in HeaderLabels, o \in OpeningRows } :
          txs \in SeqsUpTo(TxRows, MaxTx) }

-----------------------------------------------------------------------------
\* The program state.

VARIABLES
  sheet,     \* the rows of the input spreadsheet
  exists,    \* whether the input file exists
  pc,        \* where gl2qif is
  loc,       \* the local variables of gl2qif
  xlsOpen,   \* the ExcelFile handle is open
  qifOpen,   \* the output file handle is open
  out,       \* the lines of the output file on disk
  exc,       \* the exception caught by `except Exception as e`
  error,     \* the exception gl2qif raised to its caller
  shift,     \* the blank rows put above the header row for a second run
  first,     \* the outcome of the run on the statement as it was
  text,      \* a Person/Item text
  payee      \* the payee extracted from text

vars ==
  <<sheet, exists, pc, loc, xlsOpen, qifOpen, out, exc, error, shift, first,
    text, payee>>

input_file == "gl.xlsx"

account_type == <<"B", "a", "n", "k">>

NoExc == [type |-> "", text |-> ""]

NoError == [type |-> "", msg |-> <<>>]

Unset == <<"unset">>

\* The locals before gl2qif has bound them (-1, NaN: not bound).
NoLocals ==
  [type_row_idx |-> -1, period |-> NaN, opening_balance |-> DNaN,
   running_balance |-> DNaN, df |-> <<>>, idx |-> 0,
   empty_line_index |-> -1, trans_amount |-> DNaN,
   closing_balance |-> DNaN,
   rows |-> [opening |-> -1, tx |-> -1, closing |-> -1]]

NoFirst ==
  [set |-> FALSE, pc |-> "", out |-> <<>>, exc |-> NoExc, loc |-> NoLocals,
   len |-> 0]

-----------------------------------------------------------------------------
\* Reading the sheet.

\* pd.read_excel(xls, usecols=col, skiprows=k, nrows=1).iloc[0, 0]: row k is
\* taken as the header, the cell is that of row k + 1 (rows count from 0).
CellRow(skiprows) == skiprows + 1

CanRead(skiprows) == CellRow(skiprows) < Len(sheet)

ReadCell(col, skiprows) == sheet[CellRow(skiprows) + 1][col]

TYPE == <<"T", "Y", "P", "E">>

\* df_headers[df_headers[0].astype(str).str.strip().str.upper() == 'TYPE'].index
HeaderMatches(sh) ==
  {r \in 0..(Len(sh) - 1) : Upper(Strip(Fmt(sh[r + 1].A))) = TYPE}

\* .index[0]
FirstIndex(S) == CHOOSE r \in S : \A q \in S : r <= q

row_openening_balance == loc.type_row_idx + 1

OpeningSkipRows == row_openening_balance - 1

\* The transactions read from a fixed row, as skiprows=7 did.
TxSkipRowsFixed == 7

TxSkipRows == row_openening_balance + 1

ClosingSkipRows == row_openening_balance + 2 + loc.empty_line_index

\* balance = -convert_to_decimal(credit) if pd.notna(credit)
\*           else convert_to_decimal(debit)
BalanceOk(debit, credit) ==
  IF notna(credit) THEN ConvertOk(credit) ELSE ConvertOk(debit)

SignedBalance(debit, credit) ==
  IF notna(credit) THEN DecNeg(convert_to_decimal(credit))
  ELSE convert_to_decimal(debit)

\* A converter of read_excel: applied to the cells that are not empty; an
\* empty cell stays NaN.
ConverterOk(v) == v = NaN \/ ConvertOk(v)

Converted(v) == IF v = NaN THEN DNaN ELSE convert_to_decimal(v)

FrameRow(r) ==
  [Type |-> r.A, Ref |-> r.B, Date |-> r.D, PersonItem |-> r.G, Memo |-> r.H,
   Debit |-> Converted(r.I), Credit |-> Converted(r.J),
   Balance |-> Converted(r.K)]

\* The rows read_excel(skiprows=k, names=...) returns: row k is the header
\* row, the rows after it are the data.
DataRows(skiprows) ==
  IF skiprows + 2 > Len(sheet) THEN <<>>
  ELSE SubSeq(sheet, skiprows + 2, Len(sheet))

\* The convention the other way round: minus the debit when there is one.
SignedAmountSwapped(row) ==
  IF ~IsDNaN(row.Debit) THEN DecNeg(row.Debit) ELSE row.Credit

\* trans_amount = -row['Credit'] if pd.notna(row['Credit']) else row['Debit']
SignedAmount(row) ==
  IF ~IsDNaN(row.Credit) THEN DecNeg(row.Credit) ELSE row.Debit

\* The loop left at a row without a memo instead of one without a date.
StopsAtNoMemo(row) == row.Memo = NaN

\* if pd.isna(row['Date']): ... break
StopsAt(row) == row.Date.na

\* descr = row['Memo'].replace("\n", "")
Descr(memo) == SelectSeq(memo, LAMBDA c : c # "\n")

Line(tag, body) == [tag |-> tag, body |-> body]

HeaderLine == Line("!Type:", account_type)

\* The lines written for a row before its memo is looked at.
RecordHead(row, amount) ==
  << Line("D", StrfDate(row.Date)),
     Line("T", DecStr(amount)),
     Line("N", Fmt(row.Ref)) >>

\* The payee line written after the end of the record.
RecordRestPayeeLast(row) ==
  << Line("M", Fmt(row.Type) \o <<":", " ">> \o Descr(row.Memo)),
     Line("^", <<>>) >>
    \o PayeeLines(row.PersonItem)

\* The lines written for a row from its memo on.
RecordRest(row) ==
  << Line("M", Fmt(row.Type) \o <<":", " ">> \o Descr(row.Memo)) >>
    \o PayeeLines(row.PersonItem)
    \o << Line("^", <<>>) >>

\* The file emptied when the block is left.
FileEmptiedOnExit(lines) == <<>>

\* The file as the `with open(...)` block leaves it: closed, its lines kept.
FileOnExit(lines) == lines

\* A message without the input path.
ConversionErrorNoPath(path, e) ==
  [type |-> "ConversionError",
   msg |-> <<"Failed to convert to QIF: ", e.text>>]

ConversionError(path, e) ==
  [type |-> "ConversionError",
   msg |-> <<"Failed to convert ", path, " to QIF: ", e.text>>]

Mismatch == [type |-> "ValueError", text |-> "Final calculated balance does not match closing balance"]

-----------------------------------------------------------------------------
\* gl2qif, a step at a time.

Raise(type, msg) ==
  /\ pc' = "except"
  /\ exc' = [type |-> type, text |-> msg]

Init ==
  /\ \/ exists = TRUE /\ sheet \in Statements
     \/ exists = FALSE /\ sheet = <<>>
  /\ pc = "start"
  /\ loc = NoLocals
  /\ xlsOpen = FALSE
  /\ qifOpen = FALSE
  /\ out = <<>>
  /\ exc = NoExc
  /\ error = NoError
  /\ shift = 0
  /\ first = NoFirst
  /\ text = <<>>
  /\ payee = Unset

\* xls = pd.ExcelFile(input_file)
OpenExcel ==
  /\ pc = "start"
  /\ IF exists
     THEN /\ xlsOpen' = TRUE
          /\ pc' = "locate"
          /\ exc' = exc
     ELSE /\ Raise("FileNotFoundError", "No such file or directory")
          /\ xlsOpen' = xlsOpen
  /\ UNCHANGED <<sheet, exists, loc, qifOpen, out, error, shift, first, text, payee>>

\* df_headers = pd.read_excel(xls, header=None); type_row_idx = ....index[0]
LocateHeader ==
  /\ pc = "locate"
  /\ LET found == HeaderMatches(sheet)
     IN  IF found = {}
         THEN /\ Raise("IndexError", "index 0 is out of bounds")
              /\ loc' = loc
         ELSE /\ loc' = [loc EXCEPT !.type_row_idx = FirstIndex(found)]
              /\ pc' = "period"
              /\ exc' = exc
  /\ UNCHANGED <<sheet, exists, xlsOpen, qifOpen, out, error, shift, first, text, payee>>

\* period = pd.read_excel(xls, usecols="B", skiprows=2, nrows=1).iloc[0, 0]
ReadPeriod ==
  /\ pc = "period"
  /\ IF CanRead(2)
     THEN /\ loc' = [loc EXCEPT !.period = ReadCell("B", 2)]
          /\ pc' = "opening"
          /\ exc' = exc
     ELSE /\ Raise("IndexError", "single positional indexer is out-of-bounds")
          /\ loc' = loc
  /\ UNCHANGED <<sheet, exists, xlsOpen, qifOpen, out, error, shift, first, text, payee>>

\* opening_balance_debit, opening_balance_credit, opening_balance,
\* running_balance = opening_balance
ReadOpening ==
  /\ pc = "opening"
  /\ IF ~CanRead(OpeningSkipRows)
     THEN /\ Raise("IndexError", "single positional indexer is out-of-bounds")
          /\ loc' = loc
     ELSE LET debit == ReadCell("I", OpeningSkipRows)
              credit == ReadCell("J", OpeningSkipRows)
          IN  IF ~BalanceOk(debit, credit)
              THEN /\ Raise("ValueError", "Invalid value")
                   /\ loc' = loc
              ELSE /\ loc' = [loc EXCEPT
                                !.opening_balance = SignedBalance(debit, credit),
                                !.running_balance = SignedBalance(debit, credit),
                                !.rows.opening = CellRow(OpeningSkipRows)]
                   /\ pc' = "read"
                   /\ exc' = exc
  /\ UNCHANGED <<sheet, exists, xlsOpen, qifOpen, out, error, shift, first, text, payee>>

\* df = pd.read_excel(xls, skiprows=row_openening_balance+1, usecols="A:K", ...)
ReadTransactions ==
  /\ pc = "read"
  /\ LET data == DataRows(TxSkipRows)
     IN  IF \E i \in 1..Len(data) :
               ~(ConverterOk(data[i].I) /\ ConverterOk(data[i].J) /\ ConverterOk(data[i].K))
         THEN /\ Raise("ValueError", "could not convert string to float")
              /\ loc' = loc
         ELSE /\ loc' = [loc EXCEPT !.df = [i \in 1..Len(data) |-> FrameRow(data[i])],
                                    !.rows.tx = CellRow(TxSkipRows)]
              /\ pc' = "open"
              /\ exc' = exc
  /\ UNCHANGED <<sheet, exists, xlsOpen, qifOpen, out, error, shift, first, text, payee>>

\* with open(output_file, 'w') as qif_file: qif_file.write(f"!Type:{account_type}\n")
OpenOutput ==
  /\ pc = "open"
  /\ qifOpen' = TRUE
  /\ out' = <<HeaderLine>>
  /\ pc' = "loop"
  /\ UNCHANGED <<sheet, exists, loc, xlsOpen, exc, error, shift, first, text, payee>>

\* for _, row in df.iterrows(): the row's date is NaN: break
IterBreak ==
  /\ pc = "loop"
  /\ loc.idx < Len(loc.df)
  /\ StopsAt(loc.df[loc.idx + 1])
  /\ loc' = [loc EXCEPT !.empty_line_index = loc.idx]
  /\ pc' = "closing"
  /\ UNCHANGED <<sheet, exists, xlsOpen, qifOpen, out, exc, error, shift, first, text, payee>>

\* one pass of the loop body for a dated row: the amount, the running
\* balance, the lines of the record
IterRecord ==
  /\ pc = "loop"
  /\ loc.idx < Len(loc.df)
  /\ ~StopsAt(loc.df[loc.idx + 1])
  /\ LET row == loc.df[loc.idx + 1]
         amount == SignedAmount(row)
     IN  IF IsDNaN(amount)
         THEN \* running_balance += nan: Decimal + float
              /\ Raise("TypeError", "unsupported operand type(s) for +=")
              /\ loc' = [loc EXCEPT !.trans_amount = amount]
              /\ out' = FileOnExit(out)
              /\ qifOpen' = FALSE
         ELSE IF row.Memo = NaN
         THEN \* row['Memo'].replace: a float has no replace
              /\ Raise("AttributeError", "'float' object has no attribute 'replace'")
              /\ loc' = [loc EXCEPT !.trans_amount = amount,
                                    !.running_balance = DecAdd(loc.running_balance, amount)]
              /\ out' = FileOnExit(out \o RecordHead(row, amount))
              /\ qifOpen' = FALSE
         ELSE /\ loc' = [loc EXCEPT !.trans_amount = amount,
                                    !.running_balance = DecAdd(loc.running_balance, amount),
                                    !.idx = loc.idx + 1]
              /\ out' = out \o RecordHead(row, amount) \o RecordRest(row)
              /\ pc' = "loop"
              /\ UNCHANGED <<exc, qifOpen>>
  /\ UNCHANGED <<sheet, exists, xlsOpen, error, shift, first, text, payee>>

\* the loop ends without a break: every row had a date
IterEnd ==
  /\ pc = "loop"
  /\ loc.idx = Len(loc.df)
  /\ pc' = "closing"
  /\ UNCHANGED <<sheet, exists, loc, xlsOpen, qifOpen, out, exc, error, shift, first, text, payee>>

\* closing_balance_debit, closing_balance_credit, closing_balance
ReadClosing ==
  /\ pc = "closing"
  /\ IF loc.empty_line_index = -1
     THEN /\ Raise("UnboundLocalError", "local variable 'empty_line_index' referenced before assignment")
          /\ loc' = loc
          /\ out' = FileOnExit(out)
          /\ qifOpen' = FALSE
     ELSE IF ~CanRead(ClosingSkipRows)
     THEN /\ Raise("IndexError", "single positional indexer is out-of-bounds")
          /\ loc' = loc
          /\ out' = FileOnExit(out)
          /\ qifOpen' = FALSE
     ELSE LET debit == ReadCell("I", ClosingSkipRows)
              credit == ReadCell("J", ClosingSkipRows)
          IN  IF ~BalanceOk(debit, credit)
              THEN /\ Raise("ValueError", "Invalid value")
                   /\ loc' = loc
                   /\ out' = FileOnExit(out)
                   /\ qifOpen' = FALSE
              ELSE /\ loc' = [loc EXCEPT
                                !.closing_balance = SignedBalance(debit, credit),
                                !.rows.closing = CellRow(ClosingSkipRows)]
                   /\ pc' = "compare"
                   /\ UNCHANGED <<out, exc, qifOpen>>
  /\ UNCHANGED <<sheet, exists, xlsOpen, error, shift, first, text, payee>>

\* A comparison that lets a difference of a cent pass.
DiffersByMoreThanACent(running, closing) ==
  LET d == ValueOf(running) - ValueOf(closing)
  IN  d > 10 \/ d < -10

\* running_balance != closing_balance
Differs(running, closing) == ~DecEq(running, closing)

\* if running_balance != closing_balance: raise ValueError(...); the with
\* block ends either way
Compare ==
  /\ pc = "compare"
  /\ IF Differs(loc.running_balance, loc.closing_balance)
     THEN Raise(Mismatch.type, Mismatch.text)
     ELSE pc' = "success" /\ exc' = exc
  /\ out' = FileOnExit(out)
  /\ qifOpen' = FALSE
  /\ UNCHANGED <<sheet, exists, loc, xlsOpen, error, shift, first, text, payee>>

\* The two prints, and the return.  gl2qif never closes xls: whether the
\* handle is closed when gl2qif has returned is up to the interpreter's
\* collection of the ExcelFile object.
Return ==
  /\ pc = "success"
  /\ pc' = "done"
  /\ xlsOpen' \in {xlsOpen, FALSE}
  /\ UNCHANGED <<sheet, exists, loc, qifOpen, out, exc, error, shift, first, text, payee>>

\* except Exception as e: raise ConversionError(...).  The exception keeps
\* the frame, and with it xls, alive.
Except ==
  /\ pc = "except"
  /\ error' = ConversionError(input_file, exc)
  /\ pc' = "raised"
  /\ UNCHANGED <<sheet, exists, loc, xlsOpen, qifOpen, out, exc, shift, first, text, payee>>

-----------------------------------------------------------------------------
\* The same statement with its header row moved down, converted again.

BlankRows(n) == [i \in 1..n |-> BlankRow]

InsertRows(sh, at, n) ==
  SubSeq(sh, 1, at) \o BlankRows(n) \o SubSeq(sh, at + 1, Len(sh))

MoveHeaderDown ==
  /\ pc \in {"done", "raised"}
  /\ shift = 0
  /\ HeaderMatches(sheet) # {}
  /\ shift' = MaxShift
  /\ sheet' = InsertRows(sheet, FirstIndex(HeaderMatches(sheet)), MaxShift)
  /\ first' = [set |-> TRUE, pc |-> pc, out |-> out, exc |-> exc, loc |-> loc,
               len |-> Len(sheet)]
  /\ pc' = "start"
  /\ loc' = NoLocals
  /\ xlsOpen' = FALSE
  /\ qifOpen' = FALSE
  /\ out' = <<>>
  /\ exc' = NoExc
  /\ error' = NoError
  /\ UNCHANGED <<exists, text, payee>>

Next ==
  \/ OpenExcel
  \/ LocateHeader
  \/ ReadPeriod
  \/ ReadOpening
  \/ ReadTransactions
  \/ OpenOutput
  \/ IterBreak
  \/ IterRecord
  \/ IterEnd
  \/ ReadClosing
  \/ Compare
  \/ Return
  \/ Except
  \/ MoveHeaderDown

Spec == Init /\ [][Next]_vars

-----------------------------------------------------------------------------
\* The payee pattern on its own: every short Person/Item text.

PayeeChars == {"]", " ", "/", "|", "\n", "A"}

InitPayee ==
  /\ text \in SeqsUpTo(PayeeChars, MaxLen)
  /\ payee = Unset
  /\ exists = FALSE
  /\ sheet = <<>>
  /\ pc = "payee"
  /\ loc = NoLocals
  /\ xlsOpen = FALSE
  /\ qifOpen = FALSE
  /\ out = <<>>
  /\ exc = NoExc
  /\ error = NoError
  /\ shift = 0
  /\ first = NoFirst

\* payee_match = re.search(...); payee = payee_match.group(1).strip() if
\* payee_match else None; the P line
MatchPayee ==
  /\ pc = "payee"
  /\ payee = Unset
  /\ payee' = ExtractPayee(text)
  /\ out' = PayeeLines(text)
  /\ pc' = "matched"
  /\ UNCHANGED <<sheet, exists, loc, xlsOpen, qifOpen, exc, error, shift, first, text>>

NextPayee == MatchPayee

SpecPayee == InitPayee /\ [][NextPayee]_vars

-----------------------------------------------------------------------------
\* The statement as the claims speak of it: positions counted from the header
\* row, amounts as numbers (thousandths).

Terminal == pc \in {"done", "raised"}

Row(r) == sheet[r + 1]

HeaderOf(sh) == FirstIndex(HeaderMatches(sh))

\* The offset, from the first transaction row, of the first row without a
\* date; -1 when every row from there on has one.
StopOffsetOf(sh, h) ==
  LET blank == {i \in 0..(Len(sh) - h - 4) : sh[h + 3 + i + 1].D.na}
  IN  IF blank = {} THEN -1 ELSE CHOOSE i \in blank : \A j \in blank : i <= j

\* The number of rows the loop can turn into records.
DatedRows(sh, h) ==
  IF StopOffsetOf(sh, h) = -1
  THEN (IF Len(sh) - h - 3 > 0 THEN Len(sh) - h - 3 ELSE 0)
  ELSE StopOffsetOf(sh, h)

RECURSIVE SumRows(_, _, _)
SumRows(sh, from, n) ==
  IF n = 0 THEN 0 ELSE RowAmount(sh[from + 1]) + SumRows(sh, from + 1, n - 1)

RecordsWritten(lines) == Cardinality({i \in 1..Len(lines) : lines[i].tag = "^"})

RecordsBegun(lines) == Cardinality({i \in 1..Len(lines) : lines[i].tag = "D"})

Abs(x) == IF x < 0 THEN -x ELSE x

\* Opening balance plus the amounts of the rows before the first blank-date
\* row, minus the closing balance.
Imbalance(sh) ==
  LET h == HeaderOf(sh)
      k == StopOffsetOf(sh, h)
  IN  RowAmount(sh[h + 2]) + SumRows(sh, h + 3, k) - RowAmount(sh[h + 3 + k + 2])

Compared == ~IsDNaN(loc.closing_balance) /\ pc # "compare"

\* C1: gl2qif succeeds only if the opening balance plus the signed amounts of
\* the rows before the first blank-date row equals the closing balance
\* exactly; when they differ, by 0.01 or more, the run ends in the
\* balance-mismatch failure, raised as ConversionError.
C1_ReconciledOrRaised ==
  /\ pc \in {"success", "done"} => Imbalance(sheet) = 0
  /\ (Compared /\ Imbalance(sheet) # 0) =>
        /\ pc \in {"except", "raised"}
        /\ exc = Mismatch
        /\ pc = "raised" => error.type = "ConversionError"

C1_Witness ==
  /\ pc = "raised"
  /\ exc = Mismatch
  /\ Abs(Imbalance(sheet)) = 10
  /\ RecordsWritten(out) >= 1

\* C2: the signed amount of a transaction row, and of the opening and closing
\* balance cells, is minus the credit when the credit is present and the
\* debit otherwise.
C2_SignConvention ==
  LET h == loc.type_row_idx
      n == RecordsBegun(out)
  IN  /\ (n > 0 /\ ~IsDNaN(loc.trans_amount)) =>
            ValueOf(loc.trans_amount) =
              (IF notna(Row(h + 3 + n - 1).J)
               THEN -CellValue(Row(h + 3 + n - 1).J)
               ELSE CellValue(Row(h + 3 + n - 1).I))
      /\ ~IsDNaN(loc.opening_balance) =>
            ValueOf(loc.opening_balance) =
              (IF notna(Row(h + 1).J) THEN -CellValue(Row(h + 1).J)
               ELSE CellValue(Row(h + 1).I))
      /\ ~IsDNaN(loc.closing_balance) =>
            LET c == h + 3 + loc.empty_line_index + 1
            IN  ValueOf(loc.closing_balance) =
                  (IF notna(Row(c).J) THEN -CellValue(Row(c).J)
                   ELSE CellValue(Row(c).I))

\* A credit of 50.25 with no debit written as -50.25, after a debit of 200
\* with no credit written as 200.0.
C2_Witness ==
  /\ \E i \in 1..Len(out) : out[i] = Line("T", <<"-", "5", "0", ".", "2", "5">>)
  /\ \E i \in 1..Len(out) : out[i] = Line("T", <<"2", "0", "0", ".", "0">>)
  /\ ValueOf(loc.opening_balance) = -500500
  /\ pc = "done"

\* C3: the loop stops at the first row without a date: the rows before it,
\* and no others, are written as records and added to the running balance.
C3_StopsAtBlankDate ==
  LET h == loc.type_row_idx
      k == StopOffsetOf(sheet, h)
  IN  /\ pc \in {"loop", "closing", "compare", "success", "done", "except", "raised"}
          => /\ RecordsBegun(out) <= DatedRows(sheet, h)
             /\ loc.idx <= DatedRows(sheet, h)
      /\ loc.empty_line_index # -1 =>
            /\ loc.empty_line_index = k
            /\ RecordsWritten(out) = k
            /\ RecordsBegun(out) = k
            /\ ValueOf(loc.running_balance) =
                 ValueOf(loc.opening_balance) + SumRows(sheet, h + 3, k)

\* Two dated rows, the blank-date row, the closing row, and a dated row after
\* them.
C3_Witness ==
  /\ pc = "done"
  /\ loc.empty_line_index = 2
  /\ RecordsWritten(out) = 2
  /\ Len(loc.df) = 5
  /\ ~loc.df[5].Date.na

\* The block of a statement row, as the QIF format lays it out.
Block(r) ==
  LET amount == IF notna(r.J) THEN DecNeg(Converted(r.J)) ELSE Converted(r.I)
      name == IF notna(r.G) THEN ExtractPayee(r.G) ELSE NoPayee
  IN  << Line("D", StrfDate(r.D)), Line("T", DecStr(amount)),
         Line("N", Fmt(r.B)),
         Line("M", Fmt(r.A) \o <<":", " ">> \o SelectSeq(r.H, LAMBDA c : c # "\n")) >>
        \o (IF name # NoPayee /\ name # <<>> THEN <<Line("P", name)>> ELSE <<>>)
        \o << Line("^", <<>>) >>

RECURSIVE Blocks(_, _, _)
Blocks(sh, from, n) ==
  IF n = 0 THEN <<>> ELSE Block(sh[from + 1]) \o Blocks(sh, from + 1, n - 1)

\* The header line and the blocks of the rows before the first row without a
\* date, in the order of the rows.
Ledger(sh, h) ==
  <<Line("!Type:", account_type)>> \o Blocks(sh, h + 3, DatedRows(sh, h))

\* C4: the output is the !Type: line and then one block per transaction, in
\* the order read, each block D, T, N, M, P only with a payee, and ^; lines
\* are only ever appended.
C4_OutputInOrder ==
  /\ [](out # <<>> /\ pc # "matched" => IsPrefix(out, Ledger(sheet, loc.type_row_idx)))
  /\ [](pc \in {"compare", "success", "done"} => out = Ledger(sheet, loc.type_row_idx))
  /\ [][pc' # "start" => IsPrefix(out, out')]_vars

\* Two blocks written, the first with a P line and the second without.
C4_Witness ==
  /\ pc = "done"
  /\ Len(out) = 12
  /\ out[6].tag = "P"
  /\ out[7].tag = "^"
  /\ out[11].tag = "M"
  /\ out[12].tag = "^"

\* The message names the input path and gives the text of the cause.
Wraps(err, e) ==
  /\ err.type = "ConversionError"
  /\ \E i \in 1..Len(err.msg) : err.msg[i] = input_file
  /\ \E i \in 1..Len(err.msg) : err.msg[i] = e.text

SameOutcome ==
  /\ pc = first.pc
  /\ out = first.out
  /\ loc.opening_balance = first.loc.opening_balance
  /\ loc.closing_balance = first.loc.closing_balance
  /\ loc.running_balance = first.loc.running_balance
  /\ loc.df = first.loc.df
  /\ loc.empty_line_index = first.loc.empty_line_index

ShiftedBy(n) ==
  /\ loc.type_row_idx = first.loc.type_row_idx + n
  /\ \A f \in {"opening", "tx", "closing"} :
       loc.rows[f] = IF first.loc.rows[f] = -1 THEN -1 ELSE first.loc.rows[f] + n

HeaderRelative ==
  /\ loc.type_row_idx # -1 =>
        /\ Upper(Strip(Fmt(Row(loc.type_row_idx).A))) = TYPE
        /\ \A r \in 0..(loc.type_row_idx - 1) : Upper(Strip(Fmt(Row(r).A))) # TYPE
  /\ loc.rows.opening # -1 => loc.rows.opening = loc.type_row_idx + 1
  /\ loc.rows.tx # -1 => loc.rows.tx = loc.type_row_idx + 3
  /\ loc.rows.closing # -1 =>
        loc.rows.closing = loc.type_row_idx + 3 + loc.empty_line_index + 1

C9_WrittenBeforeCompared ==
  LET full == Ledger(sheet, loc.type_row_idx)
  IN  /\ pc = "compare" => out = full /\ RecordsWritten(out) = loc.empty_line_index
      /\ (exc = Mismatch /\ pc \in {"except", "raised"}) =>
            /\ out = full
            /\ out[1] = HeaderLine
            /\ RecordsWritten(out) = loc.empty_line_index
            /\ ~qifOpen

C9_Witness ==
  /\ pc = "raised"
  /\ exc = Mismatch
  /\ RecordsWritten(out) = 2
  /\ out[Len(out)].tag = "^"

\* The payee as the specification describes it: the text after "] " up to
\* the next "/" or line break.
DescribedPayee(s) == SearchPayee(s, {"/", "\n"})

\* C5: the payee is the first text after a "] " marker, up to the next "/" or
\* line break or the end, trimmed; without a marker there is no payee and no
\* P line.
C5_PayeeAsDescribed ==
  pc = "matched" =>
    /\ payee = DescribedPayee(text)
    /\ (payee = NoPayee => out = <<>>)

\* The number of digits after the point.
FracDigits(s) == IF PointAt(s) > Len(s) THEN 0 ELSE Len(s) - PointAt(s)

\* C8: every amount on a T line is written with exactly two decimal digits.
C8_TwoDecimals ==
  \A i \in 1..Len(out) : out[i].tag = "T" => FracDigits(out[i].body) = 2

\* C10: when gl2qif has returned or raised, the spreadsheet handle and the
\* output file handle are closed.
C10_HandlesReleased ==
  Terminal => ~xlsOpen /\ ~qifOpen

====
